---- MODULE Spec2Model ----
(***************************************************************************)
(* Model of the XDP packet filter src/network/af_xdp/bpf/xdp_filter.c.     *)
(*                                                                         *)
(* xdp_filter_prog parses Ethernet / IPv4 / UDP with a bounds check before *)
(* every header read, looks the UDP destination port up in port_filter and *)
(* redirects matching frames to the AF_XDP socket registered in xsks_map   *)
(* under the frame's receive queue.  The two maps are shared with the      *)
(* control plane, which updates them while the program runs.               *)
(*                                                                         *)
(* A frame is a function from byte offsets 0 .. len-1 to bytes.  One       *)
(* invocation of the program is a record (its registers and position)      *)
(* held by the CPU that runs it; every statement of the program is one     *)
(* action.  Fields of the record that the program does not have (reads,    *)
(* proven, nFilter, pf_seen, nXsk, xsk_seen, xsk_key, filter_key) are      *)
(* history: they record which bytes and which map slots were touched.      *)
(***************************************************************************)
EXTENDS Integers, Sequences, FiniteSets, TLC

VARIABLES port_filter, xsks_map, ctx

vars == <<port_filter, xsks_map, ctx>>

----------------------------------------------------------------------------
(* Program constants *)

ETH_HLEN == 14
IPHDR_LEN == 20
UDPHDR_LEN == 8
ETH_P_IP == 2048
IPPROTO_UDP == 17
XDP_ABORTED == 0
XDP_PASS == 2
XDP_REDIRECT == 4
XSKS_MAX_ENTRIES == 64
PORT_FILTER_MAX_ENTRIES == 16
BPF_F_ACTION_MASK == 3

(* byte offsets of the fields the program reads inside their headers *)
OFF_H_PROTO == 12
OFF_IHL == 0
OFF_PROTOCOL == 9
OFF_DEST == 2

(* largest value of the 4-bit ihl bitfield *)
IHL_MAX == 15

----------------------------------------------------------------------------
(* Bounds of the model *)

(* bytes of payload a frame may carry after the longest UDP header *)
MaxPayload == 0

(* values an out-of-bounds load may produce, beside those of the frame *)
MaxWildByte == 1

MaxLen == ETH_HLEN + IHL_MAX * 4 + UDPHDR_LEN + MaxPayload

----------------------------------------------------------------------------
(* Byte order and loads *)

(* bpf_htons / bpf_ntohs on a little-endian target: swap the two bytes *)
bpf_htons(x) == (x % 256) * 256 + (x \div 256)

(* the port used as loaded, without the byte swap *)
NoSwap(x) == x

bpf_ntohs(x) == (x % 256) * 256 + (x \div 256)

(* a native 16-bit load of the bytes b0 (lower address) and b1 *)
LoadU16(b0, b1) == b0 + 256 * b1

(* the ihl bitfield: the low four bits of the first byte of the IPv4 header *)
IhlOf(b) == b % 16

(* The values a one-byte load at offset off can return.  Inside the frame   *)
(* it is the frame's byte; outside [data, data_end) it is whatever lies     *)
(* there.                                                                  *)
LoadByte(frame, off) ==
    IF off \in DOMAIN frame THEN {frame[off]} ELSE 0..MaxWildByte

----------------------------------------------------------------------------
(* The two maps *)

(* The maps are partial functions: DOMAIN m is the set of keys present.    *)
(* A lookup returns <<>> for a null pointer and <<v>> for a pointer to v.  *)

(* keys and values the control plane uses *)
Ports == {8001, 9999}

Actions == {0, 1}

RxQueues == {0, 1, 64}

(* the AF_XDP socket the control plane opens for queue q *)
SockFd(q) == 100 + q

MapPut(m, k, v) == [x \in DOMAIN m \cup {k} |-> IF x = k THEN v ELSE m[x]]

MapDel(m, k) == [x \in DOMAIN m \ {k} |-> m[x]]

(* bpf_map_lookup_elem(&port_filter, &key) *)
PortFilterLookup(m, key) == IF key \in DOMAIN m THEN <<m[key]>> ELSE <<>>

(* the key reduced modulo the number of slots *)
XskLookupWrapped(m, key) ==
    IF (key % XSKS_MAX_ENTRIES) \in DOMAIN m
    THEN <<m[key % XSKS_MAX_ENTRIES]>> ELSE <<>>

(* the XSKMAP lookup inside bpf_redirect_map: an array of max_entries slots *)
XskLookup(m, key) ==
    IF key < XSKS_MAX_ENTRIES /\ key \in DOMAIN m THEN <<m[key]>> ELSE <<>>

(* the helper as it was before flags carried a fallback action: any flag   *)
(* set aborts                                                              *)
bpf_redirect_map_legacy(m, key, flags) ==
    IF flags # 0 THEN [ret |-> XDP_ABORTED, tgt |-> <<>>]
                 ELSE [ret |-> XDP_REDIRECT, tgt |-> XskLookup(m, key)]

(* bpf_redirect_map(&xsks_map, key, flags): XDP_REDIRECT towards the slot's *)
(* socket when the slot is filled, else the action held in the low bits of *)
(* flags.                                                                  *)
bpf_redirect_map(m, key, flags) ==
    LET t == XskLookup(m, key)
    IN  IF t # <<>> THEN [ret |-> XDP_REDIRECT, tgt |-> t]
                    ELSE [ret |-> flags % (BPF_F_ACTION_MASK + 1), tgt |-> <<>>]

(* control plane: bpf_map_update_elem / bpf_map_delete_elem on port_filter *)
PortFilterUpdate(p, v) ==
    /\ p \in DOMAIN port_filter
       \/ Cardinality(DOMAIN port_filter) < PORT_FILTER_MAX_ENTRIES
    /\ port_filter' = MapPut(port_filter, p, v)
    /\ UNCHANGED <<xsks_map, ctx>>

PortFilterDelete(p) ==
    /\ p \in DOMAIN port_filter
    /\ port_filter' = MapDel(port_filter, p)
    /\ UNCHANGED <<xsks_map, ctx>>

(* control plane: an AF_XDP socket is bound to queue q, or closed *)
XskRegister(q) ==
    /\ q < XSKS_MAX_ENTRIES
    /\ xsks_map' = MapPut(xsks_map, q, SockFd(q))
    /\ UNCHANGED <<port_filter, ctx>>

XskUnregister(q) ==
    /\ q \in DOMAIN xsks_map
    /\ xsks_map' = MapDel(xsks_map, q)
    /\ UNCHANGED <<port_filter, ctx>>

ControlPlane ==
    \/ \E p \in Ports, v \in Actions : PortFilterUpdate(p, v)
    \/ \E p \in Ports : PortFilterDelete(p)
    \/ \E q \in RxQueues : XskRegister(q)
    \/ \E q \in RxQueues : XskUnregister(q)

----------------------------------------------------------------------------
(* xdp_filter_prog, one action per statement *)

(* the test with hdr in place of hdr + 1 *)
HdrPastEndNoSize(hdr_off, hdr_size, data_end) == hdr_off > data_end

(* the pointer test hdr + 1 > data_end, with data at offset 0 *)
HdrPastEnd(hdr_off, hdr_size, data_end) == hdr_off + hdr_size > data_end

(* the UDP header taken right after the fixed IPv4 header *)
UdpOffsetFixed(ip_off, ihl) == ip_off + IPHDR_LEN

(* ihl raised to the 5 words of the fixed header *)
UdpOffsetClamped(ip_off, ihl) == ip_off + (IF ihl < 5 THEN 5 ELSE ihl) * 4

(* udp = ip + ip->ihl * 4, in bytes *)
UdpOffset(ip_off, ihl) == ip_off + ihl * 4

(* the test without its second half *)
IsPassNullOnly(action) == action = <<>>

(* the test of line 74: action is null, or the value it points to is 0 *)
IsPass(action) == action = <<>> \/ action[1] = 0

(* TCP let through as well *)
NotUdpNorTcp(protocol) == protocol # IPPROTO_UDP /\ protocol # 6

(* the test of line 61 *)
NotUdp(protocol) == protocol # IPPROTO_UDP

(* flags 0: no fallback action *)
NoFallback == XDP_ABORTED

(* the flags argument of line 85: the action returned when the slot is empty *)
FallbackAction == XDP_PASS

(* the state of a CPU that runs no program *)
Idle ==
    [pc |-> "idle", frame |-> <<>>, data_end |-> 0, rx_queue_index |-> 0,
     udp_off |-> 0, dport |-> 0, action |-> <<>>, ret |-> <<>>, tgt |-> <<>>,
     proven |-> 0, reads |-> {}, nFilter |-> 0, filter_key |-> <<>>,
     pf_seen |-> <<>>, nXsk |-> 0, xsk_key |-> <<>>, xsk_seen |-> <<>>]

(* entry: ctx->data, ctx->data_end, ctx->rx_queue_index of a received frame *)
Entry(frame, q) ==
    [Idle EXCEPT !.pc = "eth_bounds", !.frame = frame,
                 !.data_end = Cardinality(DOMAIN frame), !.rx_queue_index = q]

Return(r, code) == [r EXCEPT !.pc = "done", !.ret = <<code>>]

Receive(c, frame, q) ==
    /\ ctx[c].pc = "idle"
    /\ ctx' = [ctx EXCEPT ![c] = Entry(frame, q)]
    /\ UNCHANGED <<port_filter, xsks_map>>

(* the return value is handed to the driver, which is done with the frame *)
Complete(c) ==
    /\ ctx[c].pc = "done"
    /\ ctx' = [ctx EXCEPT ![c] = Idle]
    /\ UNCHANGED <<port_filter, xsks_map>>

(* line 48 *)
CheckEth(c) ==
    LET r == ctx[c] IN
    /\ r.pc = "eth_bounds"
    /\ ctx' = [ctx EXCEPT ![c] =
                 IF HdrPastEnd(0, ETH_HLEN, r.data_end)
                 THEN Return(r, XDP_PASS)
                 ELSE [r EXCEPT !.pc = "eth_proto", !.proven = ETH_HLEN]]
    /\ UNCHANGED <<port_filter, xsks_map>>

(* line 52 *)
CheckEthProto(c) ==
    LET r == ctx[c] IN
    /\ r.pc = "eth_proto"
    /\ \E b0 \in LoadByte(r.frame, OFF_H_PROTO),
          b1 \in LoadByte(r.frame, OFF_H_PROTO + 1) :
         LET rd == [r EXCEPT !.reads = @ \cup {OFF_H_PROTO, OFF_H_PROTO + 1}]
         IN  ctx' = [ctx EXCEPT ![c] =
                       IF LoadU16(b0, b1) # bpf_htons(ETH_P_IP)
                       THEN Return(rd, XDP_PASS)
                       ELSE [rd EXCEPT !.pc = "ip_bounds"]]
    /\ UNCHANGED <<port_filter, xsks_map>>

(* lines 56-58 *)
CheckIp(c) ==
    LET r == ctx[c] IN
    /\ r.pc = "ip_bounds"
    /\ ctx' = [ctx EXCEPT ![c] =
                 IF HdrPastEnd(ETH_HLEN, IPHDR_LEN, r.data_end)
                 THEN Return(r, XDP_PASS)
                 ELSE [r EXCEPT !.pc = "ip_proto",
                                !.proven = ETH_HLEN + IPHDR_LEN]]
    /\ UNCHANGED <<port_filter, xsks_map>>

(* line 61 *)
CheckIpProto(c) ==
    LET r == ctx[c] IN
    /\ r.pc = "ip_proto"
    /\ \E b \in LoadByte(r.frame, ETH_HLEN + OFF_PROTOCOL) :
         LET rd == [r EXCEPT !.reads = @ \cup {ETH_HLEN + OFF_PROTOCOL}]
         IN  ctx' = [ctx EXCEPT ![c] =
                       IF NotUdp(b)
                       THEN Return(rd, XDP_PASS)
                       ELSE [rd EXCEPT !.pc = "udp_bounds"]]
    /\ UNCHANGED <<port_filter, xsks_map>>

(* lines 65-67 *)
ParseUdp(c) ==
    LET r == ctx[c] IN
    /\ r.pc = "udp_bounds"
    /\ \E b \in LoadByte(r.frame, ETH_HLEN + OFF_IHL) :
         LET rd  == [r EXCEPT !.reads = @ \cup {ETH_HLEN + OFF_IHL}]
             off == UdpOffset(ETH_HLEN, IhlOf(b))
         IN  ctx' = [ctx EXCEPT ![c] =
                       IF HdrPastEnd(off, UDPHDR_LEN, r.data_end)
                       THEN Return(rd, XDP_PASS)
                       ELSE [rd EXCEPT !.pc = "dport", !.udp_off = off,
                                       !.proven = IF off + UDPHDR_LEN > @
                                                  THEN off + UDPHDR_LEN ELSE @]]
    /\ UNCHANGED <<port_filter, xsks_map>>

(* line 70 *)
ReadDport(c) ==
    LET r == ctx[c] IN
    /\ r.pc = "dport"
    /\ \E b0 \in LoadByte(r.frame, r.udp_off + OFF_DEST),
          b1 \in LoadByte(r.frame, r.udp_off + OFF_DEST + 1) :
         ctx' = [ctx EXCEPT ![c] =
                   [r EXCEPT !.pc = "lookup",
                             !.reads = @ \cup {r.udp_off + OFF_DEST,
                                               r.udp_off + OFF_DEST + 1},
                             !.dport = bpf_ntohs(LoadU16(b0, b1))]]
    /\ UNCHANGED <<port_filter, xsks_map>>

(* line 73 *)
LookupPort(c) ==
    LET r == ctx[c] IN
    /\ r.pc = "lookup"
    /\ ctx' = [ctx EXCEPT ![c] =
                 [r EXCEPT !.pc = "test_action",
                           !.action = PortFilterLookup(port_filter, r.dport),
                           !.nFilter = @ + 1,
                           !.filter_key = <<r.dport>>,
                           !.pf_seen = port_filter]]
    /\ UNCHANGED <<port_filter, xsks_map>>

(* the map looked up a second time for the value *)
TestActionReread(c) ==
    LET r == ctx[c]
        a == PortFilterLookup(port_filter, r.dport)
    IN
    /\ r.pc = "test_action"
    /\ ctx' = [ctx EXCEPT ![c] =
                 IF r.action = <<>> \/ IsPass(a)
                 THEN Return([r EXCEPT !.nFilter = @ + 1], XDP_PASS)
                 ELSE [r EXCEPT !.pc = "redirect", !.nFilter = @ + 1]]
    /\ UNCHANGED <<port_filter, xsks_map>>

(* lines 74-77 *)
TestAction(c) ==
    LET r == ctx[c] IN
    /\ r.pc = "test_action"
    /\ ctx' = [ctx EXCEPT ![c] =
                 IF IsPass(r.action)
                 THEN Return(r, XDP_PASS)
                 ELSE [r EXCEPT !.pc = "redirect"]]
    /\ UNCHANGED <<port_filter, xsks_map>>

(* lines 81-85 *)
Redirect(c) ==
    LET r   == ctx[c]
        res == bpf_redirect_map(xsks_map, r.rx_queue_index, FallbackAction)
    IN
    /\ r.pc = "redirect"
    /\ ctx' = [ctx EXCEPT ![c] =
                 [Return(r, res.ret) EXCEPT !.tgt = res.tgt,
                                            !.nXsk = @ + 1,
                                            !.xsk_key = <<r.rx_queue_index>>,
                                            !.xsk_seen = xsks_map]]
    /\ UNCHANGED <<port_filter, xsks_map>>

Step(c) ==
    \/ CheckEth(c)
    \/ CheckEthProto(c)
    \/ CheckIp(c)
    \/ CheckIpProto(c)
    \/ ParseUdp(c)
    \/ ReadDport(c)
    \/ LookupPort(c)
    \/ TestAction(c)
    \/ Redirect(c)

----------------------------------------------------------------------------
(* Frames *)

EtherTypes == {ETH_P_IP, 34525}

Protocols == {IPPROTO_UDP, 6}

(* A frame of len bytes as the wire carries it: EtherType et in bytes 12   *)
(* and 13, version 4 and header length ihl in byte 14, protocol pr in byte *)
(* 23 and the big-endian port dp in the third and fourth byte after the    *)
(* ihl * 4 bytes of IPv4 header; every other byte is 0.  A frame shorter   *)
(* than a field simply lacks it.                                           *)
MkFrame(len, et, ihl, pr, dp) ==
    [i \in 0..(len - 1) |->
        IF i = 12 THEN et \div 256
        ELSE IF i = 13 THEN et % 256
        ELSE IF i = 14 THEN 64 + ihl
        ELSE IF i = 23 THEN pr
        ELSE IF i = 14 + ihl * 4 + 2 THEN dp \div 256
        ELSE IF i = 14 + ihl * 4 + 3 THEN dp % 256
        ELSE 0]

(* the length at which the UDP header of a frame with header length ihl ends *)
UdpEnd(ihl) == ETH_HLEN + ihl * 4 + UDPHDR_LEN

(* the length at which the last header of such a frame ends *)
HeadersEnd(ihl) ==
    IF UdpEnd(ihl) > ETH_HLEN + IPHDR_LEN THEN UdpEnd(ihl)
                                          ELSE ETH_HLEN + IPHDR_LEN

----------------------------------------------------------------------------
(* Spec: one CPU runs the program on one frame after another, on any       *)
(* receive queue, while the control plane updates both maps at any         *)
(* moment.  Frames end at, or one byte short of, the end of their UDP      *)
(* header, for every value of ihl.                                         *)

(* header lengths: none, one word short of the fixed header, the fixed     *)
(* header, the longest header                                              *)
IhlValues == {0, 4, 5, IHL_MAX}

Init ==
    /\ port_filter = <<>>
    /\ xsks_map = <<>>
    /\ ctx = [c \in {1} |-> Idle]

RxFrame(c) ==
    \E ihl \in IhlValues, et \in EtherTypes, pr \in Protocols,
       dp \in Ports, q \in RxQueues :
       \E len \in (HeadersEnd(ihl) - 1)..(HeadersEnd(ihl) + MaxPayload) :
          Receive(c, MkFrame(len, et, ihl, pr, dp), q)

Next ==
    \/ ControlPlane
    \/ \E c \in DOMAIN ctx : RxFrame(c)
    \/ \E c \in DOMAIN ctx : Step(c)
    \/ \E c \in DOMAIN ctx : Complete(c)

Spec == Init /\ [][Next]_vars

(* FairSpec: the program runs in softirq context and is not preempted:     *)
(* a started invocation keeps taking steps.                                *)
FairSpec == Spec /\ WF_vars(\E c \in DOMAIN ctx : Step(c))

----------------------------------------------------------------------------
(* SpecParse: the parser as a function of the frame.  The program is       *)
(* entered once, on a frame of any length 0 .. MaxLen with any ihl, with   *)
(* the maps as the control plane left them.                                *)

AllRedirect == [p \in Ports |-> 1]

AllRegistered == [q \in {q \in RxQueues : q < XSKS_MAX_ENTRIES} |-> SockFd(q)]

InitParse ==
    /\ port_filter \in {<<>>, AllRedirect}
    /\ xsks_map = AllRegistered
    /\ \E len \in 0..MaxLen, ihl \in 0..IHL_MAX, et \in EtherTypes,
          pr \in Protocols, dp \in Ports :
          ctx = [c \in {1} |-> Entry(MkFrame(len, et, ihl, pr, dp), 0)]

NextParse == \E c \in DOMAIN ctx : Step(c)

SpecParse == InitParse /\ [][NextParse]_vars


----------------------------------------------------------------------------
(* SpecConc: one invocation per CPU, concurrently, CPU c serving receive   *)
(* queue c - 1, while the control plane updates both maps.                 *)

Cpus == {1, 2}

InitConc ==
    /\ port_filter = <<>>
    /\ xsks_map = <<>>
    /\ ctx = [c \in Cpus |-> Idle]

RxFrameConc(c) ==
    \E dp \in Ports :
       Receive(c, MkFrame(UdpEnd(5) + MaxPayload, ETH_P_IP, 5, IPPROTO_UDP, dp),
               c - 1)

NextConc ==
    \/ ControlPlane
    \/ \E c \in DOMAIN ctx : RxFrameConc(c)
    \/ \E c \in DOMAIN ctx : Step(c)
    \/ \E c \in DOMAIN ctx : Complete(c)

SpecConc == InitConc /\ [][NextConc]_vars

----------------------------------------------------------------------------
(* What a frame is on the wire, read off its bytes independently of the    *)
(* program: lengths and fields as the Ethernet, IPv4 and UDP formats       *)
(* define them.                                                            *)

FrameLen(f) == Cardinality(DOMAIN f)

FrameEtherType(f) == f[12] * 256 + f[13]

FrameIhl(f) == f[14] % 16

FrameProtocol(f) == f[23]

FrameUdpOff(f) == 14 + FrameIhl(f) * 4

FrameDport(f) == f[FrameUdpOff(f) + 2] * 256 + f[FrameUdpOff(f) + 3]

(* too short for the Ethernet header, the fixed IPv4 header or the UDP     *)
(* header at ip_start + ihl * 4                                            *)
FrameTruncated(f) ==
    \/ FrameLen(f) < 14
    \/ FrameLen(f) < 14 + 20
    \/ FrameLen(f) < FrameUdpOff(f) + 8

FrameIsIpv4(f) == FrameLen(f) >= 14 /\ FrameEtherType(f) = 2048

FrameIsIpv4Udp(f) ==
    FrameLen(f) >= 14 + 20 /\ FrameEtherType(f) = 2048 /\ FrameProtocol(f) = 17

(* EtherType IPv4, protocol UDP, all three headers present *)
FrameParses(f) == FrameIsIpv4Udp(f) /\ ~FrameTruncated(f)

(* a well-formed Ethernet/IPv4/UDP frame *)
FrameWellFormed(f) == FrameParses(f) /\ FrameIhl(f) >= 5

(* the table m holds Redirect for port p *)
HoldsRedirect(m, p) == p \in DOMAIN m /\ m[p] # 0

(* the table m has a target registered for queue q *)
HasTarget(m, q) == q \in DOMAIN m

Running(r) == r.pc # "idle"

Done(r) == r.pc = "done"

----------------------------------------------------------------------------
(* Claims *)

(* C1: memory safety.  Every byte the program has read lies inside the     *)
(* frame, [0, data_end), and inside the prefix that a bounds check had     *)
(* proven present before the read: h_proto after 14 bytes, protocol and    *)
(* ihl after 14 + 20 bytes, the destination port after the 8 bytes at      *)
(* 14 + ihl * 4.  Checked for every length 0 .. MaxLen and every ihl.      *)
C1_MemorySafety ==
    \A c \in DOMAIN ctx :
      LET r == ctx[c] IN
      /\ r.proven <= FrameLen(r.frame)
      /\ \A off \in r.reads : 0 <= off /\ off < FrameLen(r.frame)
                              /\ off < r.proven
      /\ (12 \in r.reads \/ 13 \in r.reads) => r.proven >= 14
      /\ (14 \in r.reads \/ 23 \in r.reads) => r.proven >= 14 + 20
      /\ r.pc \in {"lookup", "test_action", "redirect"} \/ r.nFilter > 0
           => /\ r.udp_off = FrameUdpOff(r.frame)
              /\ r.proven >= r.udp_off + 8
              /\ r.reads = {12, 13, 14, 23, r.udp_off + 2, r.udp_off + 3}

(* the longest header, ihl = 15, in a frame that ends with its UDP header: *)
(* the port has been read from the last but fourth and fifth byte          *)
C1_Witness ==
    \E c \in DOMAIN ctx :
      /\ ctx[c].pc = "lookup"
      /\ FrameLen(ctx[c].frame) = 14 + 15 * 4 + 8
      /\ FrameIhl(ctx[c].frame) = 15
      /\ {76, 77} \subseteq ctx[c].reads

(* C4: a truncated frame is passed to the kernel and neither map is        *)
(* consulted for it, whatever the maps contain.                            *)
C4_TruncationPasses ==
    \A c \in DOMAIN ctx :
      LET r == ctx[c] IN
      Running(r) /\ FrameTruncated(r.frame)
        => /\ r.nFilter = 0
           /\ r.nXsk = 0
           /\ r.pc \notin {"lookup", "test_action", "redirect"}
           /\ Done(r) => r.ret = <<XDP_PASS>>

(* ihl = 15 in an IPv4/UDP frame whose UDP header would start at or beyond *)
(* the frame end, with every port set to redirect: passed after the third  *)
(* bounds check                                                            *)
C4_Witness ==
    \E c \in DOMAIN ctx :
      LET r == ctx[c] IN
      /\ Done(r)
      /\ FrameIsIpv4Udp(r.frame)
      /\ FrameIhl(r.frame) = 15
      /\ FrameUdpOff(r.frame) >= FrameLen(r.frame)
      /\ 14 \in r.reads
      /\ port_filter = AllRedirect
      /\ r.ret = <<XDP_PASS>>

(* C10: no lower bound on ihl.  An IPv4/UDP frame with ihl < 5 that holds  *)
(* the 8 bytes at 14 + ihl * 4 is not rejected: the UDP header is taken    *)
(* there, inside the fixed IPv4 header, the port filter is asked for the   *)
(* big-endian value at 14 + ihl * 4 + 2, and the frame is redirected       *)
(* exactly when that value has a Redirect entry and the queue a target.    *)
C10_NoIhlLowerBound ==
    \A c \in DOMAIN ctx :
      LET r == ctx[c] IN
      Done(r) /\ FrameParses(r.frame) /\ FrameIhl(r.frame) < 5
        => /\ r.udp_off = 14 + FrameIhl(r.frame) * 4
           /\ r.udp_off < 14 + 20
           /\ r.nFilter = 1
           /\ r.filter_key = <<FrameDport(r.frame)>>
           /\ r.ret = <<XDP_REDIRECT>>
                <=> /\ HoldsRedirect(r.pf_seen, FrameDport(r.frame))
                    /\ HasTarget(r.xsk_seen, r.rx_queue_index)

(* ihl = 0: the port is the IPv4 total-length field, and it redirects *)
C10_Witness ==
    \E c \in DOMAIN ctx :
      /\ Done(ctx[c])
      /\ FrameParses(ctx[c].frame)
      /\ FrameIhl(ctx[c].frame) = 0
      /\ ctx[c].reads = {12, 13, 14, 23, 16, 17}
      /\ ctx[c].ret = <<XDP_REDIRECT>>

(* C2: policy fidelity.  A finished invocation on a well-formed            *)
(* Ethernet/IPv4/UDP frame with destination port P on queue q has asked    *)
(* the port filter once; if the filter held Redirect for P and q had a     *)
(* target, the frame is redirected; if the filter held Pass or no entry    *)
(* for P, the frame is passed and xsks_map is not consulted.               *)
C2_PolicyFidelity ==
    \A c \in DOMAIN ctx :
      LET r == ctx[c]
          P == FrameDport(r.frame)
          q == r.rx_queue_index
      IN  Done(r) /\ FrameWellFormed(r.frame)
            => /\ r.nFilter = 1
               /\ r.filter_key = <<P>>
               /\ HoldsRedirect(r.pf_seen, P)
                    => /\ r.nXsk = 1
                       /\ HasTarget(r.xsk_seen, q) => r.ret = <<XDP_REDIRECT>>
               /\ ~HoldsRedirect(r.pf_seen, P)
                    => r.ret = <<XDP_PASS>> /\ r.nXsk = 0

(* port 9999 behind 40 bytes of IPv4 options, redirected on queue 1 *)
C2_Witness ==
    \E c \in DOMAIN ctx :
      LET r == ctx[c] IN
      /\ Done(r)
      /\ FrameWellFormed(r.frame)
      /\ FrameIhl(r.frame) = 15
      /\ FrameDport(r.frame) = 9999
      /\ r.rx_queue_index = 1
      /\ r.ret = <<XDP_REDIRECT>>

(* C3: fail-open.  When the port filter held Redirect for the frame's port *)
(* and xsks_map had no target for the frame's queue, the program returns   *)
(* XDP_PASS.                                                               *)
C3_FailOpen ==
    \A c \in DOMAIN ctx :
      LET r == ctx[c] IN
      /\ Done(r)
      /\ r.nFilter = 1
      /\ HoldsRedirect(r.pf_seen, FrameDport(r.frame))
      /\ r.nXsk = 1
      /\ ~HasTarget(r.xsk_seen, r.rx_queue_index)
      => r.ret = <<XDP_PASS>> /\ r.tgt = <<>>

(* queue 0 has no socket while queue 1 has one *)
C3_Witness ==
    \E c \in DOMAIN ctx :
      LET r == ctx[c] IN
      /\ Done(r)
      /\ r.nFilter = 1
      /\ HoldsRedirect(r.pf_seen, FrameDport(r.frame))
      /\ r.nXsk = 1
      /\ r.rx_queue_index = 0
      /\ DOMAIN r.xsk_seen = {1}
      /\ r.ret = <<XDP_PASS>>

(* C5: only IPv4/UDP is redirected.  A frame whose EtherType is not IPv4,  *)
(* and an IPv4 frame whose protocol is not UDP, is passed; a redirected    *)
(* frame has EtherType IPv4 and protocol UDP.                              *)
C5_OnlyIpv4Udp ==
    \A c \in DOMAIN ctx :
      LET r == ctx[c]
          f == r.frame
      IN  /\ Done(r) /\ FrameLen(f) >= 14 /\ FrameEtherType(f) # 2048
            => r.ret = <<XDP_PASS>> /\ r.nFilter = 0 /\ r.nXsk = 0
          /\ Done(r) /\ FrameLen(f) >= 14 + 20 /\ FrameIsIpv4(f)
                     /\ FrameProtocol(f) # 17
            => r.ret = <<XDP_PASS>> /\ r.nFilter = 0 /\ r.nXsk = 0
          /\ r.ret = <<XDP_REDIRECT>> => FrameIsIpv4Udp(f)

(* a complete IPv4/TCP frame to a port set to redirect, on a queue with a  *)
(* socket                                                                  *)
C5_Witness ==
    \E c \in DOMAIN ctx :
      LET r == ctx[c]
          f == r.frame
      IN  /\ Done(r)
          /\ FrameIsIpv4(f) /\ FrameLen(f) = 14 + 20 + 8 /\ FrameIhl(f) = 5
          /\ FrameProtocol(f) = 6
          /\ HoldsRedirect(port_filter, FrameDport(f))
          /\ HasTarget(xsks_map, r.rx_queue_index)
          /\ r.ret = <<XDP_PASS>>

(* C8: queue-scoped dispatch.  A redirected frame goes to the socket that  *)
(* xsks_map held under the frame's own rx_queue_index, which is below 64;  *)
(* a frame on a queue index >= 64 is passed.                               *)
C8_QueueScoped ==
    \A c \in DOMAIN ctx :
      LET r == ctx[c]
          q == r.rx_queue_index
      IN  /\ r.nXsk > 0 => r.xsk_key = <<q>>
          /\ r.ret = <<XDP_REDIRECT>>
               => /\ q < 64
                  /\ HasTarget(r.xsk_seen, q)
                  /\ r.tgt = <<r.xsk_seen[q]>>
          /\ r.tgt # <<>> => r.ret = <<XDP_REDIRECT>>
          /\ Done(r) /\ ~HasTarget(r.xsk_seen, q) => r.ret = <<XDP_PASS>>
          /\ Done(r) /\ q >= 64 => r.ret = <<XDP_PASS>>

(* queue 64 while queues 0 and 1 both have a socket *)
C8_Witness ==
    \E c \in DOMAIN ctx :
      LET r == ctx[c] IN
      /\ Done(r)
      /\ r.rx_queue_index = 64
      /\ r.nXsk = 1
      /\ DOMAIN r.xsk_seen = {0, 1}
      /\ r.ret = <<XDP_PASS>>

(* C9, the state part: each map is consulted at most once per frame, the   *)
(* port filter only after the frame has parsed, xsks_map only after the    *)
(* port filter returned Redirect.                                          *)
OneShotOrder ==
    \A c \in DOMAIN ctx :
      LET r == ctx[c] IN
      /\ r.nFilter <= 1 /\ r.nXsk <= 1
      /\ r.nFilter = 1
           => /\ FrameParses(r.frame)
              /\ r.pc \in {"test_action", "redirect", "done"}
      /\ r.pc \in {"lookup", "test_action", "redirect"} => FrameParses(r.frame)
      /\ r.nXsk = 1
           => /\ r.nFilter = 1
              /\ HoldsRedirect(r.pf_seen, r.filter_key[1])
              /\ Done(r)
      /\ r.pc = "redirect"
           => r.nFilter = 1 /\ HoldsRedirect(r.pf_seen, r.filter_key[1])

(* C9, the step part: a finished invocation takes no further step; the     *)
(* frame only leaves the CPU.                                              *)
TerminalIsFinal ==
    \A c \in DOMAIN ctx :
      Done(ctx[c]) => ctx'[c] = ctx[c] \/ ctx'[c] = Idle

(* C9: one-shot ordering of the per-frame state machine *)
C9_OneShot == []OneShotOrder /\ [][TerminalIsFinal]_vars

(* an explicit Pass entry: the port filter was asked, xsks_map was not *)
C9_Witness ==
    \E c \in DOMAIN ctx :
      LET r == ctx[c] IN
      /\ Done(r)
      /\ r.nFilter = 1
      /\ r.action = <<0>>
      /\ r.nXsk = 0
      /\ HasTarget(xsks_map, r.rx_queue_index)

(* C6, the state part: a return value exists exactly when the invocation   *)
(* has finished, and it is XDP_PASS or XDP_REDIRECT.                       *)
TwoOutcomes ==
    \A c \in DOMAIN ctx :
      LET r == ctx[c] IN
      /\ r.ret # <<>> <=> Done(r)
      /\ Done(r) => r.ret \in {<<XDP_PASS>>, <<XDP_REDIRECT>>}
      /\ Running(r) /\ ~Done(r) => ENABLED Step(c)

(* C6: totality.  Every invocation finishes, with one of the two outcomes; *)
(* no unfinished invocation is ever without a next step.                   *)
C6_Totality == []TwoOutcomes /\ (Running(ctx[1]) ~> Done(ctx[1]))

(* both outcomes: a redirect on queue 0, on a frame of the longest header *)
C6_Witness ==
    \E c \in DOMAIN ctx :
      /\ Done(ctx[c])
      /\ ctx[c].ret = <<XDP_REDIRECT>>
      /\ ctx[c].rx_queue_index = 0
      /\ FrameLen(ctx[c].frame) = MaxLen

(* C7, the state part: an invocation has read the port filter at most      *)
(* once, under the key that is its own frame's destination port, and its   *)
(* outcome is the one prescribed for the value that key held at the read   *)
(* (and for the slot of its queue at the redirect), whatever the maps hold *)
(* now and whatever the other CPU does.                                    *)
SingleKeyOutcome ==
    \A c \in DOMAIN ctx :
      LET r == ctx[c]
          P == FrameDport(r.frame)
      IN  /\ r.nFilter <= 1
          /\ r.nFilter = 1
               => /\ r.filter_key = <<P>>
                  /\ r.action = IF P \in DOMAIN r.pf_seen
                                THEN <<r.pf_seen[P]>> ELSE <<>>
          /\ Done(r) /\ r.nFilter = 1
               => IF HoldsRedirect(r.pf_seen, P)
                  THEN /\ r.nXsk = 1
                       /\ r.ret = IF HasTarget(r.xsk_seen, r.rx_queue_index)
                                  THEN <<XDP_REDIRECT>> ELSE <<XDP_PASS>>
                  ELSE r.nXsk = 0 /\ r.ret = <<XDP_PASS>>

(* C7, the step part: a step of the program writes neither map, and the    *)
(* step that reads the port filter takes the value the key holds at that   *)
(* instant.                                                                *)
ReadsOnly ==
    \A c \in DOMAIN ctx :
      /\ ctx'[c] # ctx[c] => port_filter' = port_filter /\ xsks_map' = xsks_map
      /\ ctx'[c].nFilter # ctx[c].nFilter /\ ctx'[c].nFilter > 0
           => /\ ctx'[c].nFilter = ctx[c].nFilter + 1
              /\ ctx'[c].pf_seen = port_filter
              /\ ctx'[c].frame = ctx[c].frame

(* C7: tolerance of concurrent control-plane updates *)
C7_ConcurrentUpdates == []SingleKeyOutcome /\ [][ReadsOnly]_vars

(* both CPUs have finished a frame to port 8001: CPU 1 read Redirect and   *)
(* redirected, CPU 2 read Pass and passed, and the entry is gone by now    *)
C7_Witness ==
    /\ DOMAIN ctx = Cpus
    /\ Done(ctx[1]) /\ Done(ctx[2])
    /\ ctx[1].dport = 8001 /\ ctx[2].dport = 8001
    /\ ctx[1].action = <<1>> /\ ctx[2].action = <<0>>
    /\ ctx[1].ret = <<XDP_REDIRECT>> /\ ctx[2].ret = <<XDP_PASS>>
    /\ 8001 \notin DOMAIN port_filter
    /\ HasTarget(xsks_map, 1)

====
